---- MODULE Spec2Model ----
(***************************************************************************)
(* Model of createNetworkInformation (src/src/network-information.ts,      *)
(* lines 537-1009): the measurement engine of the Network Information API  *)
(* polyfill.                                                               *)
(*                                                                         *)
(* Units.  Times are milliseconds.  Throughputs are kbps (the source's     *)
(* Mbps times 1000), so the thresholds of the classification tables are    *)
(* scaled by 1000 as well.  The probe values the transport produces are    *)
(* drawn from sets of multiples of 4, which keeps the two divisions of the *)
(* code (the average of an even median, uplink = downlink * 0.5) exact.    *)
(*                                                                         *)
(* One action is one run-to-suspension of the code: the event loop runs    *)
(* the code between two awaits atomically.                                 *)
(*                                                                         *)
(* Time.  The code reads the clock in one expression only,                 *)
(* Date.now() - lastMeasurement, and a timer is a deadline on the same     *)
(* clock.  The model keeps these differences instead of the absolute       *)
(* times: sinceLast is Date.now() - lastMeasurement (kept up to Cap, which *)
(* is beyond every value the code compares it with), a pending timer is    *)
(* the time left until it fires, and AdvanceTime moves all of them.        *)
(***************************************************************************)
EXTENDS Integers, Sequences, FiniteSets, TLC

VARIABLES
    cfg,              \* the options of the instance, fixed at construction,
                      \* and pings: the latencies its network may show
    downlink,         \* aggregated state
    uplink,
    rtt,
    effectiveType,
    saveData,
    type,
    measuring,        \* run state
    sinceLast,        \* Date.now() - lastMeasurement
    periodicTimer,    \* UndefNum, or the time left to the next setInterval tick
    delayTimers,      \* the pending delay timers: [c: the cycle waiting, left]
    cyc,              \* the invocations of performMeasurement that ran a cycle
    disposed,         \* history: dispose() has been called
    step,             \* history: what the last step did (events, requests)
    call              \* the last direct call of an exported function of the
                      \* module (_median, _classifyConnection), with its result

connVars == <<downlink, uplink, rtt, effectiveType>>
fixedVars == <<saveData, type>>
runVars == <<measuring, sinceLast, periodicTimer, delayTimers>>
vars == <<cfg, connVars, fixedVars, runVars, cyc, disposed, step, call>>

Undef == "undefined"        \* an undefined label
UndefNum == -1              \* an undefined number (the numbers are >= 0)
Null == [null |-> TRUE]     \* the null result of a probe
Throw == "throw"            \* in place of a label: the call raised

\* The numbers of the model are integers.  The three numbers of the code
\* that are not finite stand outside the range of every other number here.
PosInf == 1000000000
NegInf == -1000000000
NaN == 999999999

(***************************************************************************)
(* Bounds of the model.                                                    *)
(***************************************************************************)
MaxCycles == 2        \* cycles one behaviour may start
MaxLen == 4           \* length of the arrays given to _median

(***************************************************************************)
(* Program constants.                                                      *)
(***************************************************************************)
SettleDelay == 50
InterProbeDelay == 200
HousekeepingCadence == 10000
BaseMeasurementSize == 100000
MeasurementSizeMultiplier == 2

(***************************************************************************)
(* Input domains.                                                          *)
(***************************************************************************)
Counts == {1, 2}                 \* measurementCount
Intervals == {5000}               \* measurementInterval, when not the default
Pings == {100, 300}              \* latencyResult.ping, ms
Kbps == {40, 2000}               \* downloadResult.mbps * 1000

\* A different table under the name of the WICG one (the Chrome thresholds)
WICGWithChromeBounds ==
    << [type |-> "slow-2g", maxDownlink |-> 50, minRtt |-> 2000],
       [type |-> "2g", maxDownlink |-> 70, minRtt |-> 1400],
       [type |-> "3g", maxDownlink |-> 1600, minRtt |-> 300],
       [type |-> "4g", maxDownlink |-> UndefNum, minRtt |-> UndefNum] >>

WICG ==
    << [type |-> "slow-2g", maxDownlink |-> 50, minRtt |-> 1400],
       [type |-> "2g", maxDownlink |-> 70, minRtt |-> 270],
       [type |-> "3g", maxDownlink |-> 700, minRtt |-> UndefNum],
       [type |-> "4g", maxDownlink |-> UndefNum, minRtt |-> UndefNum] >>

EmptyTable == << >>

Min(a, b) == IF a < b THEN a ELSE b

MinOf(S) == CHOOSE x \in S : \A y \in S : x <= y

IsFinite(x) == x \notin {NaN, PosInf, NegInf}

\* A faulty _classifyConnection: a missing rule reads as the best label
RuleTypeDefaulting(table, k) ==
    IF k \in 1..Len(table) THEN table[k].type ELSE "4g"

(***************************************************************************)
(* _classifyConnection.  Reading .type of a missing rule raises.           *)
(***************************************************************************)
RuleType(table, k) == IF k \in 1..Len(table) THEN table[k].type ELSE Throw

\* A faulty rule test: the comparisons are not strict
RuleMatchesNotStrict(rule, downlinkMbps, rttMs) ==
    \/ rule.maxDownlink # UndefNum /\ downlinkMbps <= rule.maxDownlink
    \/ rule.minRtt # UndefNum /\ rttMs >= rule.minRtt

RuleMatches(rule, downlinkMbps, rttMs) ==
    \/ rule.maxDownlink # UndefNum /\ downlinkMbps < rule.maxDownlink
    \/ rule.minRtt # UndefNum /\ rttMs > rule.minRtt

\* A faulty _classifyConnection: without the defensive check
ClassifyConnectionUnchecked(table, downlinkMbps, rttMs) ==
    LET hits == {k \in 1..Len(table) :
                   RuleMatches(table[k], downlinkMbps, rttMs)}
    IN IF hits # {} THEN table[MinOf(hits)].type
       ELSE RuleType(table, Len(table))

ClassifyConnection(table, downlinkMbps, rttMs) ==
    IF \/ ~IsFinite(downlinkMbps)
       \/ ~IsFinite(rttMs)
       \/ downlinkMbps <= 0
       \/ rttMs < 0
    THEN RuleType(table, 1)
    ELSE LET hits == {k \in 1..Len(table) :
                        RuleMatches(table[k], downlinkMbps, rttMs)}
         IN IF hits # {} THEN table[MinOf(hits)].type
            ELSE RuleType(table, Len(table))

\* A faulty _median: the lower middle element, without the average
MedianLower(arr) ==
    arr[(Len(arr) + 1) \div 2]

\* A faulty _median: the upper middle element, without the average
MedianUpper(arr) ==
    arr[(Len(arr) \div 2) + 1]

(***************************************************************************)
(* _median, of a sorted array.                                             *)
(***************************************************************************)
Median(arr) ==
    LET mid == Len(arr) \div 2
    IN IF Len(arr) % 2 # 0 THEN arr[mid + 1]
       ELSE (arr[mid] + arr[mid + 1]) \div 2

\* arr.sort((a, b) => a - b)
RECURSIVE SortAsc(_)
SortAsc(arr) ==
    IF Len(arr) = 0 THEN << >>
    ELSE LET k == CHOOSE j \in 1..Len(arr) :
                    \A l \in 1..Len(arr) : arr[j] <= arr[l]
             rest == [l \in 1..(Len(arr) - 1) |->
                        IF l < k THEN arr[l] ELSE arr[l + 1]]
         IN <<arr[k]>> \o SortAsc(rest)

RECURSIVE Pow(_, _)
Pow(b, e) == IF e = 0 THEN 1 ELSE b * Pow(b, e - 1)

\* A faulty period: the cadence, whatever the interval
PeriodicIntervalFixedCadence == HousekeepingCadence

PeriodicInterval == Min(HousekeepingCadence, cfg.interval)

\* A faulty test: the interval itself is enough
CanPerformMeasurementAtInterval ==
    ~measuring /\ sinceLast >= cfg.interval

CanPerformMeasurement ==
    ~measuring /\ sinceLast > cfg.interval

\* sinceLast is kept up to Cap
Cap == cfg.interval + PeriodicInterval + 1

\* A faulty size: it grows by the base size at every probe
MeasurementSizeLinear(i) == BaseMeasurementSize * (1 + i)

MeasurementSize(i) == BaseMeasurementSize * Pow(MeasurementSizeMultiplier, i)

\* createMeasurementUrl: the three parameters of the query string
Request(uid, bytes, index) == [measId |-> uid, bytes |-> bytes, i |-> index]

Conn == [downlink |-> downlink, uplink |-> uplink, rtt |-> rtt,
         effectiveType |-> effectiveType]

\* A faulty event: the detail carries the metrics held before the update
ChangeEventOfPrevious(c, isPreliminary) ==
    [type |-> "change", downlink |-> downlink, uplink |-> uplink,
     rtt |-> rtt, effectiveType |-> c.effectiveType,
     preliminary |-> isPreliminary]

ChangeEvent(c, isPreliminary) ==
    [type |-> "change", downlink |-> c.downlink, uplink |-> c.uplink,
     rtt |-> c.rtt, effectiveType |-> c.effectiveType,
     preliminary |-> isPreliminary]

MeasurementEvent(m) == [type |-> "measurement", detail |-> m]


\* A faulty updateNetworkProperties: the label is that of the old metrics
UpdateNetworkPropertiesStaleLabel(cur, newDownlink, newRtt, isPreliminary) ==
    LET prevEffectiveType == cur.effectiveType
        label == ClassifyConnection(cfg.table, cur.downlink, cur.rtt)
        metrics == [downlink |-> newDownlink, uplink |-> newDownlink \div 2,
                    rtt |-> newRtt, effectiveType |-> prevEffectiveType]
        next == [metrics EXCEPT !.effectiveType = label]
    IN IF label = Throw
       THEN [conn |-> metrics, events |-> << >>, thrown |-> TRUE]
       ELSE [conn |-> next,
             events |-> IF prevEffectiveType # label \/ ~isPreliminary
                        THEN <<ChangeEvent(next, isPreliminary)>>
                        ELSE << >>,
             thrown |-> FALSE]

\* A faulty updateNetworkProperties: uplink is the downlink itself
UpdateNetworkPropertiesFullUplink(cur, newDownlink, newRtt, isPreliminary) ==
    LET label == ClassifyConnection(cfg.table, newDownlink, newRtt)
        metrics == [downlink |-> newDownlink, uplink |-> newDownlink,
                    rtt |-> newRtt, effectiveType |-> cur.effectiveType]
        next == [metrics EXCEPT !.effectiveType = label]
    IN IF label = Throw
       THEN [conn |-> metrics, events |-> << >>, thrown |-> TRUE]
       ELSE [conn |-> next,
             events |-> IF cur.effectiveType # label \/ ~isPreliminary
                        THEN <<ChangeEvent(next, isPreliminary)>>
                        ELSE << >>,
             thrown |-> FALSE]

(***************************************************************************)
(* updateNetworkProperties, as a function of the aggregated state `cur`:   *)
(* the new aggregated state, the events dispatched, and whether the call   *)
(* raised.  The three metric assignments precede the classification, so    *)
(* they stand when the classification raises.                              *)
(***************************************************************************)
UpdateNetworkProperties(cur, newDownlink, newRtt, isPreliminary) ==
    LET prevEffectiveType == cur.effectiveType
        label == ClassifyConnection(cfg.table, newDownlink, newRtt)
        metrics == [downlink |-> newDownlink, uplink |-> newDownlink \div 2,
                    rtt |-> newRtt, effectiveType |-> prevEffectiveType]
        next == [metrics EXCEPT !.effectiveType = label]
    IN IF label = Throw
       THEN [conn |-> metrics, events |-> << >>, thrown |-> TRUE]
       ELSE [conn |-> next,
             events |-> IF prevEffectiveType # label \/ ~isPreliminary
                        THEN <<ChangeEvent(next, isPreliminary)>>
                        ELSE << >>,
             thrown |-> FALSE]

\* A faulty no-op: the state is reset to zeroes
NoUpdateResets(cur) ==
    [conn |-> [downlink |-> 0, uplink |-> 0, rtt |-> 0,
               effectiveType |-> "slow-2g"],
     events |-> << >>, thrown |-> FALSE]

NoUpdate(cur) == [conn |-> cur, events |-> << >>, thrown |-> FALSE]

\* measurements.map((m) => m.rtt), measurements.map((m) => m.downlink)
Rtts(measurements) ==
    [k \in 1..Len(measurements) |-> measurements[k].rtt]

Downlinks(measurements) ==
    [k \in 1..Len(measurements) |-> measurements[k].downlink]

\* A faulty updateFromMeasurements: zero samples blank the state
UpdateFromMeasurementsBlanking(cur, measurements) ==
    IF Len(measurements) = 0
    THEN [conn |-> [downlink |-> UndefNum, uplink |-> UndefNum,
                    rtt |-> UndefNum, effectiveType |-> Undef],
          events |-> << >>, thrown |-> FALSE]
    ELSE UpdateNetworkProperties(
             cur, Median(SortAsc(Downlinks(measurements))),
             Median(SortAsc(Rtts(measurements))), FALSE)

UpdateFromMeasurements(cur, measurements) ==
    IF Len(measurements) = 0
    THEN NoUpdate(cur)
    ELSE LET rtts == SortAsc(Rtts(measurements))
             downlinks == SortAsc(Downlinks(measurements))
         IN UpdateNetworkProperties(cur, Median(downlinks), Median(rtts),
                                    FALSE)

\* A faulty performSingleMeasurement, without the catch: a failure escapes
SingleMeasurementResultUncaught(thrown, measurement) ==
    [thrown |-> thrown, value |-> IF thrown THEN Null ELSE measurement]

(***************************************************************************)
(* The try/catch of performSingleMeasurement: a raise of either request or *)
(* of either body read becomes the result null, and nothing is raised to   *)
(* measureNetworkSpeed.                                                    *)
(***************************************************************************)
SingleMeasurementResult(thrown, measurement) ==
    [thrown |-> FALSE, value |-> IF thrown THEN Null ELSE measurement]

\* A faulty performMeasurement, without the catch: a raise rejects
PerformMeasurementOutcomeUncaught(thrown) ==
    IF thrown THEN "rejected" ELSE "fulfilled"

(***************************************************************************)
(* The try/catch/finally of performMeasurement: how its promise settles.   *)
(***************************************************************************)
PerformMeasurementOutcome(thrown) == "fulfilled"

\* A faulty loop: a preliminary update after every probe but the last
IsPreliminaryAnyIndex(measurement, i) ==
    measurement # Null /\ cfg.count > 1

\* if (i === 0 && measurementCount > 1), inside if (measurement)
IsPreliminary(measurement, i) ==
    measurement # Null /\ i = 0 /\ cfg.count > 1

\* cyc[c] is the c-th cycle of the behaviour: idle (not started yet), at one
\* of its suspension points, or done.
IdleCycle == [pc |-> "idle", i |-> 0, ms |-> << >>, ping |-> UndefNum,
              origin |-> Undef]

DoneCycle == [IdleCycle EXCEPT !.pc = "done"]

NewCycle(origin) == [pc |-> "latFetch", i |-> 0, ms |-> << >>, ping |-> UndefNum,
                     origin |-> origin]

Cycles == 1..MaxCycles

Active(c) == cyc[c].pc \notin {"idle", "done"}

FreeCycles == {c \in Cycles : cyc[c].pc = "idle"}

\* What a step did: the events it dispatched, the requests it issued,
\* whether it started a cycle and, when it ended cycle c, how the promise of
\* that performMeasurement call settled and the samples the cycle collected.
Did(name, c, events, requests, started) ==
    [name |-> name, c |-> c, events |-> events, requests |-> requests,
     started |-> started, outcome |-> "pending", measurements |-> << >>,
     result |-> Null]

\* No exported function has been called directly
NoCall == [fn |-> "none", args |-> << >>, result |-> 0]

\* delay(ms): the timer pushed on delayTimers, for the cycle that awaits it
Delay(c, ms) == [c |-> c, left |-> ms]

SetConn(c) ==
    /\ downlink' = c.downlink
    /\ uplink' = c.uplink
    /\ rtt' = c.rtt
    /\ effectiveType' = c.effectiveType

(***************************************************************************)
(* performMeasurement up to its first suspension, when no cycle is         *)
(* measuring: the flag, the time stamp, the token of the cycle (the cycle's *)
(* own number stands for the random token) and the first latency request.  *)
(***************************************************************************)
StartCycle(c, origin, name) ==
    /\ measuring' = TRUE
    /\ sinceLast' = 0
    /\ cyc' = [cyc EXCEPT ![c] = NewCycle(origin)]
    /\ step' = Did(name, c, << >>, <<Request(c, 0, 0)>>, TRUE)

(***************************************************************************)
(* The end of performMeasurement: `res` is what the aggregation that ended *)
(* the cycle returned.  The continuation of init() runs in the same turn.  *)
(***************************************************************************)
FinishCycle(c, res, measurements, events, name) ==
    /\ SetConn(res.conn)
    /\ measuring' = FALSE
    /\ cyc' = [cyc EXCEPT ![c] = DoneCycle]
    /\ periodicTimer' = IF cyc[c].origin = "init" /\ cfg.periodic
                        THEN PeriodicInterval
                        ELSE periodicTimer
    /\ step' = [Did(name, c, events \o res.events, << >>, FALSE) EXCEPT
                  !.outcome = PerformMeasurementOutcome(res.thrown),
                  !.measurements = measurements]
    /\ UNCHANGED <<sinceLast, delayTimers>>

\* A faulty loop: after a failed probe the next one starts at once
AfterProbeNoDelayOnFailure(c, result, events, name) ==
    LET cy == cyc[c]
        measurement == result.value
        measurements == IF measurement = Null THEN cy.ms
                        ELSE Append(cy.ms, measurement)
        pre == IF result.thrown
               THEN [NoUpdate(Conn) EXCEPT !.thrown = TRUE]
               ELSE IF IsPreliminary(measurement, cy.i)
               THEN UpdateNetworkProperties(Conn, measurement.downlink,
                                            measurement.rtt, TRUE)
               ELSE NoUpdate(Conn)
    IN IF pre.thrown
       THEN FinishCycle(c, pre, measurements, events, name)
       ELSE IF cy.i < cfg.count - 1 /\ measurement = Null
       THEN /\ cyc' = [cyc EXCEPT ![c].pc = "latFetch", ![c].i = cy.i + 1,
                                  ![c].ping = UndefNum]
            /\ step' = Did(name, c, events, <<Request(c, 0, cy.i + 1)>>,
                           FALSE)
            /\ UNCHANGED <<connVars, measuring, sinceLast, periodicTimer,
                           delayTimers>>
       ELSE IF cy.i < cfg.count - 1
       THEN /\ SetConn(pre.conn)
            /\ cyc' = [cyc EXCEPT ![c].pc = "gap", ![c].ms = measurements,
                                  ![c].ping = UndefNum]
            /\ delayTimers' = delayTimers \cup {Delay(c, InterProbeDelay)}
            /\ step' = Did(name, c, events \o pre.events, << >>, FALSE)
            /\ UNCHANGED <<measuring, sinceLast, periodicTimer>>
       ELSE FinishCycle(c, UpdateFromMeasurements(pre.conn, measurements),
                        measurements, events \o pre.events, name)

(***************************************************************************)
(* measureNetworkSpeed after performSingleMeasurement has settled with     *)
(* `result` (a sample or null, or a raise) for probe cyc[c].i.  A raise,   *)
(* of the probe or of the preliminary update, leaves the loop and ends the *)
(* cycle in the catch of performMeasurement.                               *)
(***************************************************************************)
AfterProbe(c, result, events, name) ==
    LET cy == cyc[c]
        measurement == result.value
        measurements == IF measurement = Null THEN cy.ms
                        ELSE Append(cy.ms, measurement)
        pre == IF result.thrown
               THEN [NoUpdate(Conn) EXCEPT !.thrown = TRUE]
               ELSE IF IsPreliminary(measurement, cy.i)
               THEN UpdateNetworkProperties(Conn, measurement.downlink,
                                            measurement.rtt, TRUE)
               ELSE NoUpdate(Conn)
    IN IF pre.thrown
       THEN FinishCycle(c, pre, measurements, events, name)
       ELSE IF cy.i < cfg.count - 1
       THEN /\ SetConn(pre.conn)
            /\ cyc' = [cyc EXCEPT ![c].pc = "gap", ![c].ms = measurements,
                                  ![c].ping = UndefNum]
            /\ delayTimers' = delayTimers \cup {Delay(c, InterProbeDelay)}
            /\ step' = Did(name, c, events \o pre.events, << >>, FALSE)
            /\ UNCHANGED <<measuring, sinceLast, periodicTimer>>
       ELSE FinishCycle(c, UpdateFromMeasurements(pre.conn, measurements),
                        measurements, events \o pre.events, name)


(***************************************************************************)
(* The state after createNetworkInformation(options) has returned.  With   *)
(* autostart, init() has run performMeasurement up to its first fetch.     *)
(***************************************************************************)
DefaultInterval == 30000

Configs(tables, pings) ==
    {o \in [autostart : BOOLEAN, periodic : BOOLEAN, count : Counts,
            interval : Intervals \cup {DefaultInterval}, table : tables,
            pings : pings] :
       o.interval # DefaultInterval => o.periodic /\ o.autostart}

InitWith(configs) ==
    /\ cfg \in configs
    /\ downlink = UndefNum
    /\ uplink = UndefNum
    /\ rtt = UndefNum
    /\ effectiveType = Undef
    /\ saveData = FALSE
    /\ type = "unknown"
    /\ measuring = cfg.autostart
    /\ sinceLast = IF cfg.autostart THEN 0 ELSE Cap
    /\ periodicTimer = UndefNum
    /\ delayTimers = {}
    /\ cyc = [c \in Cycles |->
                IF c = 1 /\ cfg.autostart THEN NewCycle("init") ELSE IdleCycle]
    /\ disposed = FALSE
    /\ call = NoCall
    /\ step = Did("create", IF cfg.autostart THEN 1 ELSE 0, << >>,
                  IF cfg.autostart THEN <<Request(1, 0, 0)>> ELSE << >>,
                  cfg.autostart)

\* a network of steady latency
Init == InitWith(Configs({WICG}, {{100}}))

\* the same, with a classification table that makes the classification raise
InitAnyTable == InitWith(Configs({WICG, EmptyTable}, {{100}}))

\* a network whose latency varies from probe to probe, under the periodic
\* two-probe configuration
InitVaryingLatency ==
    InitWith({o \in Configs({WICG}, {Pings}) :
                o.autostart /\ o.periodic /\ o.count = 2
                /\ o.interval # DefaultInterval})

\* the periodic configuration with three probes per cycle
InitThreeProbes ==
    InitWith({[autostart |-> TRUE, periodic |-> TRUE, count |-> 3,
               interval |-> 5000, table |-> WICG, pings |-> {100}]})

\* A faulty performMeasurement, without the guard: it starts a cycle anyway
MeasureNoopRestarts ==
    /\ measuring
    /\ FreeCycles # {}
    /\ StartCycle(MinOf(FreeCycles), "measure", "measure")
    /\ UNCHANGED <<call, cfg, connVars, fixedVars, periodicTimer, delayTimers,
                   disposed>>

(***************************************************************************)
(* measure(): performMeasurement called from outside.                      *)
(***************************************************************************)
MeasureNoop ==
    /\ measuring
    /\ step' = [Did("measure", 0, << >>, << >>, FALSE) EXCEPT
                  !.outcome = "fulfilled"]
    /\ UNCHANGED <<call, cfg, connVars, fixedVars, runVars, cyc, disposed>>

MeasureStart ==
    /\ ~measuring
    /\ FreeCycles # {}
    /\ StartCycle(MinOf(FreeCycles), "measure", "measure")
    /\ UNCHANGED <<call, cfg, connVars, fixedVars, periodicTimer, delayTimers,
                   disposed>>

Measure == MeasureNoop \/ MeasureStart

\* A faulty probe runner: the next probe's latency request is issued as soon
\* as the response of this one arrives
FetchResolveEager(c) ==
    /\ cyc[c].pc \in {"latFetch", "dlFetch"}
    /\ cyc' = [cyc EXCEPT ![c].pc = IF cyc[c].pc = "latFetch"
                                    THEN "latText" ELSE "dlText"]
    /\ step' = Did("fetchResolve", c, << >>,
                   <<Request(c, 0, cyc[c].i + 1)>>, FALSE)
    /\ UNCHANGED <<call, cfg, connVars, fixedVars, runVars, disposed>>

(***************************************************************************)
(* The transport settles the fetch a cycle awaits.                         *)
(***************************************************************************)
FetchResolve(c) ==
    /\ cyc[c].pc \in {"latFetch", "dlFetch"}
    /\ cyc' = [cyc EXCEPT ![c].pc = IF cyc[c].pc = "latFetch"
                                    THEN "latText" ELSE "dlText"]
    /\ step' = Did("fetchResolve", c, << >>, << >>, FALSE)
    /\ UNCHANGED <<call, cfg, connVars, fixedVars, runVars, disposed>>

FetchReject(c) ==
    /\ cyc[c].pc \in {"latFetch", "dlFetch"}
    /\ AfterProbe(c, SingleMeasurementResult(TRUE, Null), << >>, "fetchReject")
    /\ UNCHANGED <<call, cfg, fixedVars, disposed>>

\* A faulty probe: the download request follows the latency body at once
LatencyTextResolveNoSettle(c) ==
    /\ cyc[c].pc = "latText"
    /\ \E ping \in cfg.pings :
         cyc' = [cyc EXCEPT ![c].pc = "dlFetch", ![c].ping = ping]
    /\ step' = Did("latencyTextResolve", c, << >>,
                   <<Request(c, MeasurementSize(cyc[c].i), cyc[c].i)>>, FALSE)
    /\ UNCHANGED <<call, cfg, connVars, fixedVars, runVars, disposed>>

(***************************************************************************)
(* The body read response.text() settles.  After the latency body:         *)
(* buildTiming gives the ping, and the settle delay starts.  After the     *)
(* download body: the sample is assembled and dispatched.                  *)
(***************************************************************************)
LatencyTextResolve(c) ==
    /\ cyc[c].pc = "latText"
    /\ \E ping \in cfg.pings :
         cyc' = [cyc EXCEPT ![c].pc = "settle", ![c].ping = ping]
    /\ delayTimers' = delayTimers \cup {Delay(c, SettleDelay)}
    /\ step' = Did("latencyTextResolve", c, << >>, << >>, FALSE)
    /\ UNCHANGED <<call, cfg, connVars, fixedVars, measuring, sinceLast,
                   periodicTimer, disposed>>

\* A faulty probe: the sample is returned without the 'measurement' event
DownloadTextResolveSilent(c) ==
    /\ cyc[c].pc = "dlText"
    /\ \E kbps \in Kbps :
         LET measurement == [rtt |-> cyc[c].ping, downlink |-> kbps,
                             measurementSize |-> MeasurementSize(cyc[c].i)]
         IN AfterProbe(c, SingleMeasurementResult(FALSE, measurement),
                       << >>, "downloadTextResolve")
    /\ UNCHANGED <<call, cfg, fixedVars, disposed>>

DownloadTextResolve(c) ==
    /\ cyc[c].pc = "dlText"
    /\ \E kbps \in Kbps :
         LET measurement == [rtt |-> cyc[c].ping, downlink |-> kbps,
                             measurementSize |-> MeasurementSize(cyc[c].i)]
         IN AfterProbe(c, SingleMeasurementResult(FALSE, measurement),
                       <<MeasurementEvent(measurement)>>,
                       "downloadTextResolve")
    /\ UNCHANGED <<call, cfg, fixedVars, disposed>>

TextReject(c) ==
    /\ cyc[c].pc \in {"latText", "dlText"}
    /\ AfterProbe(c, SingleMeasurementResult(TRUE, Null), << >>, "textReject")
    /\ UNCHANGED <<call, cfg, fixedVars, disposed>>

(***************************************************************************)
(* A delay timer fires: the callback drops the timer from delayTimers and  *)
(* resolves; the cycle goes on with the download request (after the settle *)
(* delay) or with the next probe's latency request (after the gap).        *)
(***************************************************************************)
DelayFire(c) ==
    /\ Delay(c, 0) \in delayTimers
    /\ delayTimers' = delayTimers \ {Delay(c, 0)}
    /\ IF cyc[c].pc = "settle"
       THEN /\ cyc' = [cyc EXCEPT ![c].pc = "dlFetch"]
            /\ step' = Did("delayFire", c, << >>,
                           <<Request(c, MeasurementSize(cyc[c].i), cyc[c].i)>>,
                           FALSE)
       ELSE /\ cyc' = [cyc EXCEPT ![c].pc = "latFetch",
                                  ![c].i = cyc[c].i + 1]
            /\ step' = Did("delayFire", c, << >>,
                           <<Request(c, 0, cyc[c].i + 1)>>, FALSE)
    /\ UNCHANGED <<call, cfg, connVars, fixedVars, measuring, sinceLast,
                   periodicTimer, disposed>>

(***************************************************************************)
(* The setInterval callback of startPeriodicMeasurements.                  *)
(***************************************************************************)
TickStart ==
    /\ periodicTimer = 0
    /\ CanPerformMeasurement
    /\ FreeCycles # {}
    /\ periodicTimer' = PeriodicInterval
    /\ StartCycle(MinOf(FreeCycles), "tick", "tick")
    /\ UNCHANGED <<call, cfg, connVars, fixedVars, delayTimers, disposed>>

TickSkip ==
    /\ periodicTimer = 0
    /\ ~CanPerformMeasurement
    /\ periodicTimer' = PeriodicInterval
    /\ step' = Did("tick", 0, << >>, << >>, FALSE)
    /\ UNCHANGED <<call, cfg, connVars, fixedVars, measuring, sinceLast,
                   delayTimers, cyc, disposed>>

Tick == TickStart \/ TickSkip

\* A faulty dispose: the pending delays are left alone
DisposeKeepsDelays ==
    /\ ~disposed \/ (periodicTimer = UndefNum /\ delayTimers = {}
                      /\ ~measuring)
    /\ periodicTimer' = UndefNum
    /\ measuring' = FALSE
    /\ disposed' = TRUE
    /\ step' = Did("dispose", 0, << >>, << >>, FALSE)
    /\ UNCHANGED <<call, cfg, connVars, fixedVars, sinceLast, delayTimers,
                   cyc>>

\* A faulty dispose: the pending delays are resolved at once
DisposeResolvesDelays ==
    /\ ~disposed \/ (periodicTimer = UndefNum /\ delayTimers = {}
                      /\ ~measuring)
    /\ periodicTimer' = UndefNum
    /\ delayTimers' = {Delay(t.c, 0) : t \in delayTimers}
    /\ measuring' = FALSE
    /\ disposed' = TRUE
    /\ step' = Did("dispose", 0, << >>, << >>, FALSE)
    /\ UNCHANGED <<call, cfg, connVars, fixedVars, sinceLast, cyc>>

\* A faulty dispose: the cycles in flight are aborted
DisposeAborts ==
    /\ ~disposed \/ (periodicTimer = UndefNum /\ delayTimers = {}
                      /\ ~measuring)
    /\ periodicTimer' = UndefNum
    /\ delayTimers' = {}
    /\ measuring' = FALSE
    /\ disposed' = TRUE
    /\ cyc' = [c \in Cycles |-> IF Active(c) THEN DoneCycle ELSE cyc[c]]
    /\ step' = Did("dispose", 0, << >>, << >>, FALSE)
    /\ UNCHANGED <<call, cfg, connVars, fixedVars, sinceLast>>

(***************************************************************************)
(* dispose().  The behaviours of the model call it once at any moment, and *)
(* again whenever the call finds nothing to clear.                         *)
(***************************************************************************)
DisposeChangesNothing ==
    periodicTimer = UndefNum /\ delayTimers = {} /\ ~measuring

Dispose ==
    /\ ~disposed \/ DisposeChangesNothing
    /\ periodicTimer' = UndefNum
    /\ delayTimers' = {}
    /\ measuring' = FALSE
    /\ disposed' = TRUE
    /\ step' = Did("dispose", 0, << >>, << >>, FALSE)
    /\ UNCHANGED <<call, cfg, connVars, fixedVars, sinceLast, cyc>>

(***************************************************************************)
(* Time passes, up to the next timer that is due.  A timer that is due     *)
(* fires before time goes on.                                              *)
(***************************************************************************)
Deadlines ==
    {t.left : t \in delayTimers} \cup
    (IF periodicTimer = UndefNum THEN {} ELSE {periodicTimer})

AdvanceTime ==
    /\ Deadlines # {}
    /\ 0 \notin Deadlines
    /\ LET d == MinOf(Deadlines)
       IN /\ sinceLast' = Min(sinceLast + d, Cap)
          /\ delayTimers' = {Delay(t.c, t.left - d) : t \in delayTimers}
          /\ periodicTimer' = IF periodicTimer = UndefNum THEN UndefNum
                              ELSE periodicTimer - d
    /\ step' = Did("advanceTime", 0, << >>, << >>, FALSE)
    /\ UNCHANGED <<call, cfg, connVars, fixedVars, measuring, cyc, disposed>>

(***************************************************************************)
(* No timer is pending: a long time passes.                                *)
(***************************************************************************)
IdleTime ==
    /\ Deadlines = {}
    /\ sinceLast < Cap
    /\ sinceLast' = Cap
    /\ step' = Did("idleTime", 0, << >>, << >>, FALSE)
    /\ UNCHANGED <<call, cfg, connVars, fixedVars, measuring, periodicTimer,
                   delayTimers, cyc, disposed>>

Next ==
    \/ Measure
    \/ Dispose
    \/ Tick
    \/ AdvanceTime
    \/ IdleTime
    \/ \E c \in Cycles :
         \/ FetchResolve(c)
         \/ FetchReject(c)
         \/ LatencyTextResolve(c)
         \/ DownloadTextResolve(c)
         \/ TextReject(c)
         \/ DelayFire(c)

Spec == Init /\ [][Next]_vars

SpecAnyTable == InitAnyTable /\ [][Next]_vars

SpecVaryingLatency == InitVaryingLatency /\ [][Next]_vars

SpecThreeProbes == InitThreeProbes /\ [][Next]_vars

\* A faulty getConnectionInfo: uplink is reported as the downlink
ConnectionInfoFullUplink ==
    [downlink |-> downlink, uplink |-> downlink, rtt |-> rtt,
     effectiveType |-> effectiveType, saveData |-> saveData, type |-> type]

(***************************************************************************)
(* getConnectionInfo(), called at any moment: the object it returns.       *)
(***************************************************************************)
ConnectionInfo ==
    [downlink |-> downlink, uplink |-> uplink, rtt |-> rtt,
     effectiveType |-> effectiveType, saveData |-> saveData, type |-> type]

GetConnectionInfo ==
    /\ step' = [Did("getConnectionInfo", 0, << >>, << >>, FALSE) EXCEPT
                  !.outcome = "returned", !.result = ConnectionInfo]
    /\ UNCHANGED <<call, cfg, connVars, fixedVars, runVars, cyc, disposed>>

NextReads == Next \/ GetConnectionInfo

SpecReads == Init /\ [][NextReads]_vars

(***************************************************************************)
(* dispose() called again at any moment, also when it finds something to   *)
(* clear (a cycle started by measure() after the first disposal).          *)
(***************************************************************************)
DisposeAgain ==
    /\ disposed
    /\ ~DisposeChangesNothing
    /\ periodicTimer' = UndefNum
    /\ delayTimers' = {}
    /\ measuring' = FALSE
    /\ step' = Did("dispose", 0, << >>, << >>, FALSE)
    /\ UNCHANGED <<call, cfg, connVars, fixedVars, sinceLast, cyc, disposed>>

NextDisposeAnytime == Next \/ DisposeAgain

SpecDisposeAnytime == Init /\ [][NextDisposeAnytime]_vars

(***************************************************************************)
(* The exported functions _median and _classifyConnection, called directly *)
(* (as the test suite does) on an instance that does nothing else.         *)
(***************************************************************************)
MedianValues == {1, 2, 3, 4, 5, 10, 20, 42}

IsSorted(arr) == \A k \in 1..(Len(arr) - 1) : arr[k] <= arr[k + 1]

\* The sorted arrays whose median is an integer
MedianInputs ==
    {arr \in UNION {[1..n -> MedianValues] : n \in 1..MaxLen} :
        /\ IsSorted(arr)
        /\ Len(arr) % 2 = 0 =>
             (arr[Len(arr) \div 2] + arr[(Len(arr) \div 2) + 1]) % 2 = 0}

Firefox ==
    << [type |-> "slow-2g", maxDownlink |-> 50, minRtt |-> 2000],
       [type |-> "2g", maxDownlink |-> 250, minRtt |-> 800],
       [type |-> "3g", maxDownlink |-> 750, minRtt |-> 200],
       [type |-> "4g", maxDownlink |-> UndefNum, minRtt |-> UndefNum] >>

\* the table of the test 'Custom classification with measurements'
CustomTable ==
    << [type |-> "slow-2g", maxDownlink |-> 200, minRtt |-> 800],
       [type |-> "2g", maxDownlink |-> 1000, minRtt |-> 400],
       [type |-> "3g", maxDownlink |-> 5000, minRtt |-> 150],
       [type |-> "4g", maxDownlink |-> UndefNum, minRtt |-> UndefNum] >>

\* a table out of order, with one bound per rule and a bounded last rule
OddTable ==
    << [type |-> "3g", maxDownlink |-> UndefNum, minRtt |-> 200],
       [type |-> "slow-2g", maxDownlink |-> 50, minRtt |-> UndefNum],
       [type |-> "2g", maxDownlink |-> 5000, minRtt |-> 100] >>

ClassifyTables == {WICG, Firefox, CustomTable, OddTable, EmptyTable}

ClassifyDownlinks ==
    {NaN, PosInf, NegInf, -40, 0, 40, 50, 60, 70, 100, 500, 700, 800, 2000,
     5000, 6000}

ClassifyRtts ==
    {NaN, PosInf, NegInf, -100, 0, 50, 100, 200, 270, 271, 500, 1400, 1500}

InitCalls ==
    InitWith({o \in Configs({WICG}, {{100}}) :
                ~o.autostart /\ ~o.periodic /\ o.count = 1})

CallMedian ==
    /\ \E arr \in MedianInputs :
         call' = [fn |-> "_median", args |-> <<arr>>, result |-> Median(arr)]
    /\ UNCHANGED <<cfg, connVars, fixedVars, runVars, cyc, disposed, step>>

CallClassifyConnection ==
    /\ \E table \in ClassifyTables, downlinkMbps \in ClassifyDownlinks,
          rttMs \in ClassifyRtts :
         call' = [fn |-> "_classifyConnection",
                  args |-> <<table, downlinkMbps, rttMs>>,
                  result |-> ClassifyConnection(table, downlinkMbps, rttMs)]
    /\ UNCHANGED <<cfg, connVars, fixedVars, runVars, cyc, disposed, step>>

(***************************************************************************)
(* navigator.connection, as the installer finds it: absent; present with a *)
(* falsy value; a native object (an accessor of the prototype, which an    *)
(* own property may shadow); or a polyfill installed earlier (an own       *)
(* property, neither writable nor configurable).                           *)
(***************************************************************************)
Absent == [present |-> FALSE, value |-> Undef, configurable |-> TRUE]

NativeFalsy == [present |-> TRUE, value |-> Undef, configurable |-> TRUE]

Native == [present |-> TRUE, value |-> "native", configurable |-> TRUE]

Installed ==
    [present |-> TRUE, value |-> "earlier polyfill", configurable |-> FALSE]

Navigators == {Absent, NativeFalsy, Native, Installed}

\* Object.defineProperty(navigator, 'connection', {value, writable: false,
\* enumerable: true, configurable: false})
DefineConnection(nav, value) ==
    IF nav.present /\ ~nav.configurable
    THEN [thrown |-> TRUE, navigator |-> nav]
    ELSE [thrown |-> FALSE,
          navigator |-> [present |-> TRUE, value |-> value,
                         configurable |-> FALSE]]

\* installNetworkInformationPolyfill(options), on a navigator `nav`
InstallNetworkInformationPolyfill(nav) ==
    LET defined == DefineConnection(nav, "polyfill")
    IN [navigator |-> defined.navigator,
        returned |-> IF defined.thrown THEN Throw ELSE "polyfill"]

\* the automatic entry point
AutoInstall(hasWindow, hasNavigator, nav) ==
    IF hasWindow /\ hasNavigator /\ (~nav.present \/ nav.value = Undef)
    THEN InstallNetworkInformationPolyfill(nav)
    ELSE [navigator |-> nav, returned |-> "none"]

CallInstall ==
    /\ \E nav \in Navigators :
         call' = [fn |-> "installNetworkInformationPolyfill",
                  args |-> <<nav>>,
                  result |-> InstallNetworkInformationPolyfill(nav)]
    /\ UNCHANGED <<cfg, connVars, fixedVars, runVars, cyc, disposed, step>>

CallAutoInstall ==
    /\ \E hasWindow \in BOOLEAN, hasNavigator \in BOOLEAN,
          nav \in Navigators :
         call' = [fn |-> "auto",
                  args |-> <<hasWindow, hasNavigator, nav>>,
                  result |-> AutoInstall(hasWindow, hasNavigator, nav)]
    /\ UNCHANGED <<cfg, connVars, fixedVars, runVars, cyc, disposed, step>>

(***************************************************************************)
(* The timing estimator.  Times are in hundredths of a millisecond (the    *)
(* smallest latency buildTiming returns is 0.01 ms), sizes in bytes; a     *)
(* throughput is the exact quotient bits / time, kept as a reduced         *)
(* fraction, the fixed factors to bps and Mbps left out.                   *)
(***************************************************************************)
TicksPerMs == 100

EstimatedServerTime == 1000

EstimatedHeaderPermille == 5

MinPing == 1

MaxFallbackPing == 20000

Max(a, b) == IF a > b THEN a ELSE b

RECURSIVE GCD(_, _)
GCD(a, b) == IF b = 0 THEN a ELSE GCD(b, a % b)

\* bits / time
Rate(bits, ticks) ==
    LET g == GCD(bits, ticks)
    IN [bits |-> bits \div g, per |-> ticks \div g]

ZeroRate == [bits |-> 0, per |-> 1]

\* a response: its URL (the parameters of createMeasurementUrl) and its
\* server-timing header, given by the values of its dur= fields in order
Response(url, serverTiming) == [url |-> url, serverTiming |-> serverTiming]

NoHeader == [present |-> FALSE, durs |-> << >>]

Header(durs) == [present |-> TRUE, durs |-> durs]

\* getServerTimeFromResponse: the greedy .*dur=([0-9.]+) takes the last
\* field; UndefNum stands for null
GetServerTimeFromResponse(res) ==
    LET serverTiming == res.serverTiming
    IN IF serverTiming.present /\ serverTiming.durs # << >>
       THEN serverTiming.durs[Len(serverTiming.durs)]
       ELSE UndefNum

\* A faulty fallback: only null gives way to the estimate
ServerTimeOrNullish(res) ==
    LET t == GetServerTimeFromResponse(res)
    IN IF t = UndefNum THEN EstimatedServerTime ELSE t

\* getServerTimeFromResponse(res) || estimatedServerTime: null, 0 and NaN
\* are falsy
ServerTime(res) ==
    LET t == GetServerTimeFromResponse(res)
    IN IF t \in {UndefNum, 0, NaN} THEN EstimatedServerTime ELSE t

\* performance.getEntriesByType('resource').find((p) => p.name === res.url)
FindPerf(entries, url) ==
    LET hits == {k \in 1..Len(entries) : entries[k].name = url}
    IN IF hits = {} THEN Null ELSE entries[MinOf(hits)]

\* numBytes * (1 + estimatedHeaderFraction)
WithHeaders(numBytes) ==
    (numBytes * (1000 + EstimatedHeaderPermille)) \div 1000

\* A faulty size: the reported transferSize even when it is 0
TransferSizeReported(perf, numBytes) == perf.transferSize

\* perf.transferSize || (numBytes * (1 + estimatedHeaderFraction))
TransferSize(perf, numBytes) ==
    IF perf.transferSize # 0 THEN perf.transferSize
    ELSE WithHeaders(numBytes)

\* A faulty fallback latency: without the cap of 200 ms
FallbackPingUncapped(numBytes, networkDuration) ==
    IF numBytes = 0
    THEN Max(TicksPerMs, (networkDuration * 9) \div 10)
    ELSE (networkDuration * 3) \div 10

\* numBytes === 0 ? Math.max(1, networkDuration * 0.9)
\*                : Math.min(networkDuration * 0.3, 200)
FallbackPing(numBytes, networkDuration) ==
    IF numBytes = 0
    THEN Max(TicksPerMs, (networkDuration * 9) \div 10)
    ELSE Min((networkDuration * 3) \div 10, MaxFallbackPing)

\* buildTiming(res, startTime, endTime), given the resource-timing entries
BuildTiming(entries, res, startTime, endTime) ==
    LET perf == FindPerf(entries, res.url)
        numBytes == res.url.bytes
        serverTime == ServerTime(res)
        timed == IF perf # Null
                 THEN LET ttfb == perf.responseStart - perf.requestStart
                          payloadDownloadTime ==
                              perf.responseEnd - perf.responseStart
                          ping == Max(MinPing, ttfb - serverTime)
                      IN [ping |-> ping,
                          networkDuration |-> ping + payloadDownloadTime,
                          transferSize |-> TransferSize(perf, numBytes)]
                 ELSE LET totalDuration == endTime - startTime
                          networkDuration ==
                              Max(TicksPerMs, totalDuration - serverTime)
                      IN [ping |-> FallbackPing(numBytes, networkDuration),
                          networkDuration |-> networkDuration,
                          transferSize |-> WithHeaders(numBytes)]
        bits == 8 * timed.transferSize
        downloadTime == IF numBytes = 0 THEN 0
                        ELSE Max(TicksPerMs,
                                 timed.networkDuration - timed.ping)
    IN IF perf = Null /\ (startTime = UndefNum \/ endTime = UndefNum)
       THEN Null
       ELSE [ping |-> timed.ping,
             bps |-> IF numBytes = 0 THEN ZeroRate
                     ELSE Rate(bits, downloadTime),
             duration |-> timed.networkDuration]

\* measureDownload, after its request and body read have settled
MeasureDownload(measurementSize, res, startTime, endTime) ==
    LET totalTime == endTime - startTime
        serverTime == ServerTime(res)
        networkTime == Max(TicksPerMs, totalTime - serverTime)
        bits == 8 * WithHeaders(measurementSize)
    IN [mbps |-> Rate(bits, networkTime), networkTime |-> networkTime,
        totalTime |-> totalTime]

(***************************************************************************)
(* The exchanges given to the estimator.                                   *)
(***************************************************************************)
TimingBytes == {0, 100000, 200000}

TimingUrls == {Request(1, bytes, 0) : bytes \in TimingBytes}

TimingHeaders ==
    {NoHeader, Header(<< >>), Header(<<0>>), Header(<<500>>),
     Header(<<2500>>), Header(<<500, 0>>), Header(<<0, 250>>),
     Header(<<NaN>>)}

\* an entry whose time to first byte (30 ms) exceeds every server time,
\* without a reported size
SlowEntry(url) ==
    [name |-> url, requestStart |-> 1000, responseStart |-> 4000,
     responseEnd |-> 9000, transferSize |-> 0]

\* an entry whose time to first byte (4 ms) is below some server times,
\* with a reported size
FastEntry(url) ==
    [name |-> url, requestStart |-> 1000, responseStart |-> 1400,
     responseEnd |-> 5400, transferSize |-> 100700]

OtherUrl(url) == Request(url.measId, url.bytes, url.i + 1)

TimingEntries(url) ==
    {<< >>, <<SlowEntry(OtherUrl(url))>>, <<SlowEntry(url)>>,
     <<FastEntry(url)>>, <<FastEntry(OtherUrl(url)), SlowEntry(url)>>,
     <<FastEntry(url), SlowEntry(url)>>}

TimingStart == 700

TimingTotals == {500, 1000, 6000, 11000, 101000}

CallBuildTiming ==
    /\ \E url \in TimingUrls, serverTiming \in TimingHeaders,
          totalDuration \in TimingTotals :
         \E entries \in TimingEntries(url) :
           LET res == Response(url, serverTiming)
               endTime == TimingStart + totalDuration
           IN call' = [fn |-> "buildTiming",
                       args |-> <<entries, res, TimingStart, endTime>>,
                       result |-> BuildTiming(entries, res, TimingStart,
                                              endTime)]
    /\ UNCHANGED <<cfg, connVars, fixedVars, runVars, cyc, disposed, step>>

CallMeasureDownload ==
    /\ \E url \in TimingUrls, serverTiming \in TimingHeaders,
          totalDuration \in TimingTotals :
         \E entries \in TimingEntries(url) :
           LET res == Response(url, serverTiming)
               endTime == TimingStart + totalDuration
           IN /\ url.bytes # 0
              /\ call' = [fn |-> "measureDownload",
                          args |-> <<entries, res, TimingStart, endTime>>,
                          result |-> MeasureDownload(url.bytes, res,
                                                     TimingStart, endTime)]
    /\ UNCHANGED <<cfg, connVars, fixedVars, runVars, cyc, disposed, step>>

NextCalls ==
    CallMedian \/ CallClassifyConnection \/ CallInstall \/ CallAutoInstall

NextTiming == CallBuildTiming \/ CallMeasureDownload

SpecCalls == InitCalls /\ [][NextCalls]_vars

SpecTiming == InitCalls /\ [][NextTiming]_vars

(***************************************************************************)
(*                             PROPERTIES                                  *)
(***************************************************************************)
ChangeEvents(events) ==
    {k \in 1..Len(events) : events[k].type = "change"}

PreliminaryEvents(events) ==
    {k \in ChangeEvents(events) : events[k].preliminary}

FinalEvents(events) ==
    {k \in ChangeEvents(events) : ~events[k].preliminary}

\* the last step ended a cycle
Finished == step.c \in Cycles /\ step.outcome # "pending"

C2_AtMostOneActiveCycle ==
    Cardinality({c \in Cycles : Active(c)}) <= 1

(***************************************************************************)
(* C3.  measure() never rejects: whichever request or body read fails, and *)
(* whatever the aggregation does, the promise of performMeasurement is     *)
(* fulfilled.                                                              *)
(***************************************************************************)
C3_MeasureNeverRejects ==
    /\ step.outcome \in {"pending", "fulfilled"}
    /\ (Finished /\ step.name \in {"fetchReject", "textReject"})
         => step.outcome = "fulfilled"

C3_Witness ==
    /\ Finished
    /\ step.name = "textReject"
    /\ step.outcome = "fulfilled"
    /\ Len(step.measurements) = 1

(***************************************************************************)
(* C4.  Every measure() call resolves in the end, also when dispose() is   *)
(* called while its cycle waits in a delay.  On finite runs: a cycle that  *)
(* waits in the settle delay or in the delay between two probes has a      *)
(* pending timer that will wake it (nothing else resumes it).              *)
(***************************************************************************)
C4_WaitingCycleHasTimer ==
    \A c \in Cycles :
        cyc[c].pc \in {"settle", "gap"} => \E t \in delayTimers : t.c = c

(***************************************************************************)
(* C5.  A cycle without a sample changes nothing: every step of a cycle    *)
(* that has no sample before and after the step, its last step included,   *)
(* leaves downlink, uplink, rtt and effectiveType as they were and         *)
(* dispatches no change event.                                             *)
(***************************************************************************)
C5_NoSampleNoChange ==
    [][(/\ step'.c \in Cycles
        /\ cyc[step'.c].ms = << >>
        /\ cyc'[step'.c].ms = << >>
        /\ step'.measurements = << >>
        /\ step'.name # "downloadTextResolve")
       => /\ UNCHANGED connVars
          /\ ChangeEvents(step'.events) = {}]_vars

C5_Witness ==
    /\ Finished
    /\ step.name \in {"fetchReject", "textReject"}
    /\ step.measurements = << >>
    /\ step.events = << >>
    /\ downlink # UndefNum
    /\ effectiveType # Undef

(***************************************************************************)
(* C6.  Once dispose() has returned, the periodic timer starts no cycle.   *)
(***************************************************************************)
C6_NoTickCycleAfterDispose ==
    ~(disposed /\ step.name = "tick" /\ step.started)

(***************************************************************************)
(* C7.  The aggregated state never changes without a change event          *)
(* dispatched in the same step.                                            *)
(***************************************************************************)
C7_ChangeOfStateHasEvent ==
    [][connVars' # connVars => ChangeEvents(step'.events) # {}]_vars

(***************************************************************************)
(* C8.  A cycle that ends with a sample dispatches the final change event, *)
(* except when its preliminary step produced the same label and the cycle  *)
(* has one sample only: then it dispatches no final change event.  (The    *)
(* preliminary step of a cycle ran when the sample of probe 0 is among its *)
(* samples and the cycle has more than one probe.)                         *)
(***************************************************************************)
C8_FinalEventUnlessDuplicate ==
    (Finished /\ Len(step.measurements) >= 1)
    => LET first == step.measurements[1]
           duplicate ==
               /\ Len(step.measurements) = 1
               /\ cfg.count > 1
               /\ first.measurementSize = MeasurementSize(0)
               /\ ClassifyConnection(cfg.table, first.downlink, first.rtt)
                    = effectiveType
       IN (FinalEvents(step.events) = {}) <=> duplicate

(***************************************************************************)
(* C9.  The preliminary update happens exactly when probe 0 of a cycle of  *)
(* more than one probe gives a sample: in that step, before probe 1        *)
(* starts, the state becomes the sample's own latency and throughput, the  *)
(* uplink half the throughput and the label that of the pair.  No other    *)
(* step that does not end a cycle changes the state, and no other step     *)
(* dispatches a preliminary change event.                                  *)
(***************************************************************************)
C9_PreliminaryExactlyAfterFirstProbe ==
    [][LET s == step'
           first == /\ s.name = "downloadTextResolve"
                    /\ cyc[s.c].i = 0
                    /\ cfg.count > 1
       IN /\ first =>
               LET m == s.events[1].detail
               IN /\ rtt' = m.rtt
                  /\ downlink' = m.downlink
                  /\ 2 * uplink' = m.downlink
                  /\ effectiveType' =
                       ClassifyConnection(cfg.table, m.downlink, m.rtt)
                  /\ cyc'[s.c].pc = "gap"
                  /\ cyc'[s.c].i = 0
                  /\ s.requests = << >>
                  /\ FinalEvents(s.events) = {}
          /\ ~first =>
               /\ PreliminaryEvents(s.events) = {}
               /\ s.outcome = "pending" => UNCHANGED connVars]_vars

C9_Witness ==
    /\ step.name = "downloadTextResolve"
    /\ step.outcome = "pending"
    /\ cyc[step.c].pc = "gap"
    /\ cyc[step.c].i = 0
    /\ Len(cyc[step.c].ms) = 1
    /\ downlink = cyc[step.c].ms[1].downlink
    /\ rtt = cyc[step.c].ms[1].rtt
    /\ PreliminaryEvents(step.events) # {}

(***************************************************************************)
(* C10.  When a cycle ends with at least one sample, rtt is the median of  *)
(* the latencies of the samples of that cycle and downlink the median of   *)
(* their throughputs, each taken on its own.  The median of n values is    *)
(* the mean of its lower and upper middle values in rank.                  *)
(***************************************************************************)
Below(vals, v) == Cardinality({k \in 1..Len(vals) : vals[k] < v})

Above(vals, v) == Cardinality({k \in 1..Len(vals) : vals[k] > v})

IsMedianOf(v, vals) ==
    LET n == Len(vals)
    IN \E j, k \in 1..n :
         /\ Below(vals, vals[j]) <= (n - 1) \div 2
         /\ Above(vals, vals[j]) <= n \div 2
         /\ Below(vals, vals[k]) <= n \div 2
         /\ Above(vals, vals[k]) <= (n - 1) \div 2
         /\ 2 * v = vals[j] + vals[k]

C11_MedianOfSortedArray ==
    call.fn = "_median"
    => LET arr == call.args[1]
           n == Len(arr)
       IN /\ n % 2 = 1 => call.result = arr[(n + 1) \div 2]
          /\ n % 2 = 0 => 2 * call.result = arr[n \div 2] + arr[(n \div 2) + 1]
          /\ arr[1] <= call.result
          /\ call.result <= arr[n]

C11_Witness ==
    /\ call.fn = "_median"
    /\ call.args = << <<1, 2, 4, 5>> >>
    /\ call.result = 3

\* the arguments of the last direct call of _classifyConnection
ClassifyCalled == call.fn = "_classifyConnection"

NotFinite(x) == x = NaN \/ x = PosInf \/ x = NegInf

Invalid(downlinkMbps, rttMs) ==
    \/ NotFinite(downlinkMbps)
    \/ downlinkMbps <= 0
    \/ NotFinite(rttMs)
    \/ rttMs < 0

(***************************************************************************)
(* C12.  For every non-empty table, _classifyConnection returns the label  *)
(* of the first rule when the throughput is not finite or <= 0, or the     *)
(* latency is not finite or negative, whatever the bounds of the table.    *)
(***************************************************************************)
C12_InvalidInputGivesFirstLabel ==
    (/\ ClassifyCalled
     /\ call.args[1] # << >>
     /\ Invalid(call.args[2], call.args[3]))
    => call.result = call.args[1][1].type

C12_Witness ==
    /\ ClassifyCalled
    /\ call.args = <<OddTable, 2000, -100>>
    /\ call.result = "3g"

(***************************************************************************)
(* C13.  For valid inputs and a non-empty table, _classifyConnection       *)
(* returns the label of the first rule, in the order of the table, with a  *)
(* defined maxDownlink strictly above the throughput or a defined minRtt   *)
(* strictly below the latency, and the label of the last rule when there   *)
(* is no such rule; the result is a label of the table.                    *)
(***************************************************************************)
C13_FirstMatchingRuleOrLast ==
    (/\ ClassifyCalled
     /\ call.args[1] # << >>
     /\ ~Invalid(call.args[2], call.args[3]))
    => LET table == call.args[1]
           Hit(k) ==
               \/ /\ table[k].maxDownlink # UndefNum
                  /\ call.args[2] < table[k].maxDownlink
               \/ /\ table[k].minRtt # UndefNum
                  /\ call.args[3] > table[k].minRtt
       IN /\ \A k \in 1..Len(table) :
               (Hit(k) /\ \A j \in 1..(k - 1) : ~Hit(j))
               => call.result = table[k].type
          /\ (\A k \in 1..Len(table) : ~Hit(k))
               => call.result = table[Len(table)].type
          /\ \E k \in 1..Len(table) : call.result = table[k].type

C13_Witness ==
    /\ ClassifyCalled
    /\ call.args = <<OddTable, 5000, 100>>
    /\ call.result = "2g"

(***************************************************************************)
(* C14.  With the WICG table and valid inputs (throughput in kbps here):   *)
(* slow-2g iff throughput < 50 or latency > 1400; otherwise 2g iff         *)
(* throughput < 70 or latency > 270; otherwise 3g iff throughput < 700;    *)
(* otherwise 4g.                                                           *)
(***************************************************************************)
C14_WicgBands ==
    (/\ ClassifyCalled
     /\ call.args[1] = WICG
     /\ ~Invalid(call.args[2], call.args[3]))
    => LET d == call.args[2]
           r == call.args[3]
       IN call.result =
            IF d < 50 \/ r > 1400 THEN "slow-2g"
            ELSE IF d < 70 \/ r > 270 THEN "2g"
            ELSE IF d < 700 THEN "3g"
            ELSE "4g"

C14_Witness ==
    /\ ClassifyCalled
    /\ call.args = <<WICG, 700, 100>>
    /\ call.result = "4g"

(***************************************************************************)
(* C15.  In every reachable state saveData is false and type is 'unknown'  *)
(* (no operation changes them), and whenever downlink is defined uplink is *)
(* half of it.                                                             *)
(***************************************************************************)
C15_FixedFieldsAndUplink ==
    /\ saveData = FALSE
    /\ type = "unknown"
    /\ downlink # UndefNum => 2 * uplink = downlink

C15_Witness ==
    /\ Finished
    /\ Len(step.measurements) = 2
    /\ downlink = 1020
    /\ uplink = 510
    /\ saveData = FALSE
    /\ type = "unknown"

(***************************************************************************)
(* C16.  The four fields are undefined at construction and stay undefined  *)
(* until a step in which the cycle of the step has a sample (the first     *)
(* sample of the instance is aggregated); without autostart, construction  *)
(* issues no request, and no request is issued and the fields stay         *)
(* undefined until measure() is called.                                    *)
(***************************************************************************)
AllUndefined ==
    /\ downlink = UndefNum
    /\ uplink = UndefNum
    /\ rtt = UndefNum
    /\ effectiveType = Undef

NoCycleYet == \A c \in Cycles : cyc[c].pc = "idle"

C16_UndefinedUntilFirstSample ==
    /\ AllUndefined
    /\ ~cfg.autostart => (step.requests = << >> /\ NoCycleYet)
    /\ [][(AllUndefined /\ ~AllUndefined')
           => /\ step'.c \in Cycles
              /\ Len(cyc'[step'.c].ms) + Len(step'.measurements) >= 1]_vars
    /\ [][(~cfg.autostart /\ NoCycleYet /\ step'.name # "measure")
           => /\ step'.requests = << >>
              /\ NoCycleYet'
              /\ AllUndefined']_vars

C16_Witness ==
    /\ ~cfg.autostart
    /\ cfg.count = 1
    /\ Finished
    /\ step.c = 1
    /\ step.name = "downloadTextResolve"
    /\ cyc[2].pc = "idle"
    /\ downlink = step.measurements[1].downlink
    /\ rtt = step.measurements[1].rtt

(***************************************************************************)
(* C17.  Within a cycle the probes run one after the other.  A step issues *)
(* at most one request; a cycle issues a request only when none of its     *)
(* transport calls is outstanding: the latency request of probe 0 at its   *)
(* start, the download request of probe i after the settle delay of probe  *)
(* i, and the latency request of probe i + 1 after the delay that follows  *)
(* the end (sample or failure) of probe i.                                 *)
(***************************************************************************)
C17_ProbesAreSequential ==
    [][step'.requests # << >>
       => LET q == step'.requests[1]
              c == q.measId
          IN /\ Len(step'.requests) = 1
             /\ c \in Cycles
             /\ c = step'.c
             /\ cyc[c].pc \in {"idle", "settle", "gap"}
             /\ cyc[c].pc = "idle"
                  => q.i = 0 /\ q.bytes = 0
             /\ cyc[c].pc = "settle"
                  => q.i = cyc[c].i /\ q.bytes = MeasurementSize(q.i)
             /\ cyc[c].pc = "gap"
                  => q.i = cyc[c].i + 1 /\ q.bytes = 0 /\ q.i < cfg.count
             /\ cyc'[c].i = q.i
             /\ cyc'[c].pc = IF q.bytes = 0 THEN "latFetch" ELSE "dlFetch"]_vars

C17_Witness ==
    /\ step.name = "delayFire"
    /\ step.c \in Cycles
    /\ step.requests = <<Request(step.c, 0, 1)>>
    /\ cyc[step.c].pc = "latFetch"
    /\ cyc[step.c].i = 1
    /\ Len(cyc[step.c].ms) = 1

(***************************************************************************)
(* C18.  A tick of the periodic timer starts a cycle only if no cycle is   *)
(* measuring and strictly more than measurementInterval ms have passed     *)
(* since the start of the latest cycle, whoever started it; otherwise the  *)
(* tick does nothing.                                                      *)
(***************************************************************************)
C18_TickStartsOnlyWhenDue ==
    [][step'.name = "tick"
       => IF ~measuring /\ sinceLast > cfg.interval
          THEN step'.started
          ELSE /\ ~step'.started
               /\ step'.requests = << >>
               /\ step'.events = << >>
               /\ UNCHANGED <<connVars, measuring, sinceLast, delayTimers,
                              cyc>>]_vars

C18_Witness ==
    /\ step.name = "tick"
    /\ step.started
    /\ cyc[step.c].origin = "tick"
    /\ sinceLast = 0
    /\ measuring

(***************************************************************************)
(* C19.  As stated: whenever the periodic timer is armed or armed again,   *)
(* its period is the housekeeping cadence of 10 s, whatever the interval.  *)
(***************************************************************************)
TimerArmed ==
    \/ periodicTimer = UndefNum /\ periodicTimer' # UndefNum
    \/ step'.name = "tick"

C19_PeriodIsTenSeconds ==
    [][TimerArmed => periodicTimer' = 10000]_vars

(***************************************************************************)
(* C19, amended.  The period of the periodic timer is the smaller of 10 s  *)
(* and measurementInterval.                                                *)
(***************************************************************************)
C19_PeriodIsMinOfCadenceAndInterval ==
    [][TimerArmed
       => periodicTimer' = IF cfg.interval < 10000 THEN cfg.interval
                           ELSE 10000]_vars

C19_Witness ==
    /\ step.name = "tick"
    /\ cfg.interval = 5000
    /\ periodicTimer = 5000

(***************************************************************************)
(* C20.  In periodic mode, on an instance not disposed of, once a cycle    *)
(* has finished, none is running and more than measurementInterval ms have *)
(* passed since the start of the latest one, the next tick is pending, at  *)
(* most one housekeeping period away (and by C18 it starts a cycle).       *)
(***************************************************************************)
CycleDue ==
    /\ cfg.periodic
    /\ ~disposed
    /\ \E c \in Cycles : cyc[c].pc = "done"
    /\ \A c \in Cycles : ~Active(c)
    /\ ~measuring
    /\ sinceLast > cfg.interval

C20_TickPendingWhenCycleDue ==
    CycleDue => (periodicTimer # UndefNum /\ periodicTimer <= HousekeepingCadence)

(***************************************************************************)
(* C21.  In periodic mode the periodic timer is armed from construction    *)
(* on, in every configuration, until the instance is disposed of.          *)
(***************************************************************************)
C21_TimerArmedWhenPeriodic ==
    (cfg.periodic /\ ~disposed) => periodicTimer # UndefNum

(***************************************************************************)
(* C22.  dispose(), called in any state and any number of times, returns   *)
(* normally, leaves the periodic timer cancelled, no delay pending and the *)
(* measuring flag false, and leaves downlink, uplink, rtt and              *)
(* effectiveType as they were; a second dispose() right after a first one  *)
(* changes nothing.                                                        *)
(***************************************************************************)
C22_DisposeClearsRunStateOnly ==
    [][step'.name = "dispose"
       => /\ periodicTimer' = UndefNum
          /\ delayTimers' = {}
          /\ ~measuring'
          /\ step'.outcome # "rejected"
          /\ UNCHANGED <<connVars, fixedVars, cyc>>
          /\ step.name = "dispose"
             => UNCHANGED <<connVars, fixedVars, runVars, cyc>>]_vars

C22_Witness ==
    /\ step.name = "dispose"
    /\ disposed
    /\ \E c \in Cycles : cyc[c].pc = "gap"
    /\ \E c \in Cycles : cyc[c].origin = "measure" /\ cyc[c].pc = "settle"
    /\ delayTimers = {}
    /\ ~measuring
    /\ downlink # UndefNum

(***************************************************************************)
(* C23.  dispose() does not abort a transport call in flight: it leaves    *)
(* every cycle where it was, and a cycle that was awaiting a transport     *)
(* call when dispose() was called can go on to issue its remaining         *)
(* requests, update the aggregated state and emit a change event after     *)
(* the disposal.                                                           *)
(***************************************************************************)
C23_DisposeLeavesCyclesRunning ==
    [][/\ step'.name = "dispose" => cyc' = cyc
       /\ (disposed /\ effectiveType' # effectiveType)
          => ChangeEvents(step'.events) # {}]_vars

\* The first cycle of an autostarted instance finishes 300 ms (two settle
\* delays and one inter-probe delay) after measure() started a second one:
\* measure() starts a cycle only when measuring is false, which dispose()
\* alone can bring about while the first cycle runs, so that dispose() was
\* called while probe 0 awaited its latency request, and the three
\* requests that followed, both updates and the change events came after it.
C23_Witness ==
    /\ disposed
    /\ cfg.autostart
    /\ cfg.count = 2
    /\ step.name = "downloadTextResolve"
    /\ step.c = 1
    /\ Finished
    /\ Len(step.measurements) = 2
    /\ ChangeEvents(step.events) # {}
    /\ rtt = Median(Rtts(step.measurements))
    /\ cyc[2].origin = "measure"
    /\ cyc[2].pc = "latFetch"
    /\ cyc[2].i = 0
    /\ sinceLast = SettleDelay + InterProbeDelay + SettleDelay

(***************************************************************************)
(* C24.  A failed probe does not end the cycle.  A probe that ends, with a *)
(* sample or with a failure, before the last index leaves the cycle        *)
(* pending, with the samples collected so far, waiting to start the next   *)
(* probe; a cycle ends only with the end of probe probeCount - 1, and what *)
(* it aggregates is every sample of its successful probes.                 *)
(***************************************************************************)
ProbeEnds == step'.name \in {"fetchReject", "textReject", "downloadTextResolve"}

MeasurementEvents(events) ==
    {k \in 1..Len(events) : events[k].type = "measurement"}

\* the samples of cycle c after a step that ended one of its probes
SamplesAfter(c) ==
    IF step'.name = "downloadTextResolve"
    THEN Append(cyc[c].ms, step'.events[1].detail)
    ELSE cyc[c].ms

C24_FailedProbeDoesNotEndCycle ==
    [][/\ ProbeEnds
          => LET c == step'.c
             IN IF cyc[c].i < cfg.count - 1
                THEN /\ step'.outcome = "pending"
                     /\ cyc'[c].pc = "gap"
                     /\ cyc'[c].i = cyc[c].i
                     /\ cyc'[c].ms = SamplesAfter(c)
                     /\ Delay(c, InterProbeDelay) \in delayTimers'
                ELSE /\ step'.outcome = "fulfilled"
                     /\ step'.measurements = SamplesAfter(c)
                     /\ step'.measurements # << >>
                        => /\ rtt' = Median(Rtts(step'.measurements))
                           /\ downlink'
                                = Median(Downlinks(step'.measurements))
       /\ (step'.c \in Cycles /\ step'.outcome # "pending"
             /\ step'.name # "measure")
          => ProbeEnds /\ cyc[step'.c].i = cfg.count - 1]_vars

C24_Witness ==
    /\ cfg.count = 2
    /\ step.name = "downloadTextResolve"
    /\ Finished
    /\ Len(step.measurements) = 1
    /\ step.measurements[1].measurementSize = MeasurementSize(1)
    /\ rtt = step.measurements[1].rtt
    /\ downlink = step.measurements[1].downlink

(***************************************************************************)
(* C25.  A 'measurement' event is emitted exactly once by every probe that *)
(* produces a sample, and by no other step (so never by a probe that       *)
(* fails); its detail is that sample, and it comes before the change       *)
(* events of the same step, which are the first to reflect the sample.     *)
(***************************************************************************)
C25_MeasurementEventOncePerSample ==
    [][LET ev == step'.events
       IN IF step'.name = "downloadTextResolve"
          THEN LET c == step'.c
                   samples == IF step'.outcome = "pending" THEN cyc'[c].ms
                              ELSE step'.measurements
               IN /\ MeasurementEvents(ev) = {1}
                  /\ ev[1].detail.rtt = cyc[c].ping
                  /\ ev[1].detail.measurementSize = MeasurementSize(cyc[c].i)
                  /\ samples = Append(cyc[c].ms, ev[1].detail)
                  /\ \A k \in ChangeEvents(ev) : k > 1
          ELSE MeasurementEvents(ev) = {}]_vars

C25_Witness ==
    /\ step.name = "downloadTextResolve"
    /\ Len(step.events) = 2
    /\ step.events[1].type = "measurement"
    /\ step.events[2].type = "change"
    /\ step.events[2].preliminary
    /\ step.events[2].rtt = step.events[1].detail.rtt
    /\ step.events[2].downlink = step.events[1].detail.downlink
    /\ cyc[step.c].ms = <<step.events[1].detail>>

(***************************************************************************)
(* C26.  getConnectionInfo() is a pure read.  Called at any moment, it     *)
(* returns downlink, uplink, rtt, effectiveType, saveData and type equal   *)
(* to what the getters return at that moment, and it changes neither the   *)
(* connection state nor the run state nor any cycle.                       *)
(***************************************************************************)
C26_GetConnectionInfoIsPureRead ==
    [][step'.name = "getConnectionInfo"
       => /\ step'.result.downlink = downlink
          /\ step'.result.uplink = uplink
          /\ step'.result.rtt = rtt
          /\ step'.result.effectiveType = effectiveType
          /\ step'.result.saveData = saveData
          /\ step'.result.type = type
          /\ DOMAIN step'.result = {"downlink", "uplink", "rtt",
                                    "effectiveType", "saveData", "type"}
          /\ UNCHANGED <<cfg, connVars, fixedVars, runVars, cyc,
                         disposed>>]_vars

C26_Witness ==
    /\ step.name = "getConnectionInfo"
    /\ disposed
    /\ \E c \in Cycles : cyc[c].pc = "dlFetch" /\ cyc[c].i = 1
    /\ step.result.downlink = downlink
    /\ downlink # UndefNum
    /\ step.result.uplink # downlink
    /\ step.result.effectiveType # Undef

(***************************************************************************)
(* C27.  With an empty classification table, _classifyConnection raises    *)
(* for every input, and an engine built with an empty table never sets     *)
(* effectiveType.                                                          *)
(***************************************************************************)
C27_EmptyTableRaises ==
    /\ \A d \in ClassifyDownlinks, r \in ClassifyRtts :
         ClassifyConnection(EmptyTable, d, r) = Throw
    /\ cfg.table = EmptyTable => effectiveType = Undef

C27_Witness ==
    /\ cfg.table = EmptyTable
    /\ step.name = "downloadTextResolve"
    /\ Finished
    /\ step.outcome = "fulfilled"
    /\ Len(step.measurements) = 1
    /\ ChangeEvents(step.events) = {}
    /\ downlink = step.measurements[1].downlink
    /\ effectiveType = Undef

C29_LatencyThenSettleThenDownload ==
    [][/\ step'.name = "latencyTextResolve"
          => LET c == step'.c
             IN /\ step'.requests = << >>
                /\ cyc[c].pc = "latText"
                /\ cyc'[c].pc = "settle"
                /\ cyc'[c].ping # UndefNum
                /\ cyc'[c].i = cyc[c].i
                /\ delayTimers' = delayTimers \cup {Delay(c, 50)}
       /\ \A k \in 1..Len(step'.requests) :
            LET q == step'.requests[k]
                c == step'.c
            IN /\ q.measId = c
               /\ q.bytes # 0
                  => /\ step'.name = "delayFire"
                     /\ cyc[c].pc = "settle"
                     /\ cyc[c].ping # UndefNum
                     /\ Delay(c, 0) \in delayTimers
                     /\ q.i = cyc[c].i
                     /\ q.bytes = MeasurementSize(q.i)
       /\ (/\ step'.name \in {"fetchReject", "textReject"}
           /\ cyc[step'.c].pc \in {"latFetch", "latText"})
          => /\ step'.requests = << >>
             /\ cyc'[step'.c].pc \in {"gap", "done"}]_vars

\* the download request of probe 1, 50 + 200 + 50 ms after the cycle began
C29_Witness ==
    /\ step.name = "delayFire"
    /\ step.c = 1
    /\ cyc[2].pc = "idle"
    /\ step.requests = <<Request(1, MeasurementSize(1), 1)>>
    /\ cyc[1].pc = "dlFetch"
    /\ cyc[1].i = 1
    /\ cyc[1].ping # UndefNum
    /\ sinceLast = 300

(***************************************************************************)
(* C30.  A probe that ends before the last index, with a sample or with a  *)
(* failure, starts a delay of 200 ms, and the next probe's latency request *)
(* is issued when that delay fires; the last probe starts no delay: the    *)
(* step that ends it aggregates and ends the cycle.                        *)
(***************************************************************************)
C30_InterProbeDelay ==
    [][/\ ProbeEnds
          => LET c == step'.c
             IN IF cyc[c].i < cfg.count - 1
                THEN /\ delayTimers' = delayTimers \cup {Delay(c, 200)}
                     /\ step'.requests = << >>
                     /\ step'.outcome = "pending"
                ELSE /\ delayTimers' = delayTimers
                     /\ step'.outcome # "pending"
                     /\ cyc'[c].pc = "done"
                     /\ step'.measurements # << >>
                        => FinalEvents(step'.events) # {}
                           \/ UNCHANGED connVars
       /\ \A k \in 1..Len(step'.requests) :
            LET q == step'.requests[k]
                c == step'.c
            IN (q.bytes = 0 /\ q.i > 0)
               => /\ step'.name = "delayFire"
                  /\ cyc[c].pc = "gap"
                  /\ Delay(c, 0) \in delayTimers
                  /\ q.i = cyc[c].i + 1]_vars

\* probe 0 failed at once, and probe 1 starts 200 ms after the cycle began
C30_Witness ==
    /\ step.name = "delayFire"
    /\ step.c = 1
    /\ cyc[2].pc = "idle"
    /\ step.requests = <<Request(1, 0, 1)>>
    /\ cyc[1].ms = << >>
    /\ cyc[1].i = 1
    /\ sinceLast = 200

(***************************************************************************)
(* C31.  The download request of probe i asks for                          *)
(* baseMeasurementSize * measurementSizeMultiplier^i bytes, for every      *)
(* index i of the cycle, and the sample the probe produces records that    *)
(* size as its measurementSize.                                            *)
(***************************************************************************)
C31_GeometricSizes ==
    [][/\ \A k \in 1..Len(step'.requests) :
            LET q == step'.requests[k]
            IN /\ q.i \in 0..(cfg.count - 1)
               /\ q.bytes # 0
                  => q.bytes = BaseMeasurementSize
                                 * Pow(MeasurementSizeMultiplier, q.i)
       /\ step'.name = "downloadTextResolve"
          => step'.events[1].detail.measurementSize
               = BaseMeasurementSize
                   * Pow(MeasurementSizeMultiplier, cyc[step'.c].i)]_vars

C31_Witness ==
    /\ cfg.count = 3
    /\ step.name = "downloadTextResolve"
    /\ Finished
    /\ Len(step.measurements) = 3
    /\ step.measurements[1].measurementSize = 100000
    /\ step.measurements[2].measurementSize = 200000
    /\ step.measurements[3].measurementSize = 400000
    /\ step.events[1].detail = step.measurements[3]

(***************************************************************************)
(* C32.  Without a resource-timing entry for the response URL, buildTiming *)
(* uses the wall-clock timestamps: network duration = max(1 ms, (end -     *)
(* start) - serverTime); for a zero-byte exchange latency = max(1 ms, 0.9  *)
(* * network duration) and throughput = 0; for the others latency =        *)
(* min(0.3 * network duration, 200 ms) and throughput = bits / max(1 ms,   *)
(* network duration - latency); and the result is never null.              *)
(***************************************************************************)
TimingCall ==
    [entries |-> call.args[1], res |-> call.args[2],
     total |-> call.args[4] - call.args[3]]

NoEntryForUrl ==
    \A k \in 1..Len(TimingCall.entries) :
       TimingCall.entries[k].name # TimingCall.res.url

C32_WallClockFallback ==
    (call.fn = "buildTiming" /\ NoEntryForUrl)
    => LET numBytes == TimingCall.res.url.bytes
           nd == Max(100, TimingCall.total - ServerTime(TimingCall.res))
           out == call.result
       IN /\ out # Null
          /\ out.duration = nd
          /\ numBytes = 0
             => /\ 10 * out.ping = Max(1000, 9 * nd)
                /\ out.bps = ZeroRate
          /\ numBytes # 0
             => /\ 10 * out.ping = Min(3 * nd, 200000)
                /\ out.bps.bits * Max(100, nd - out.ping)
                     = out.bps.per * 8 * WithHeaders(numBytes)

\* 1010 ms for 100000 bytes: latency capped at 200 ms, 804000 bits in 800 ms
C32_Witness ==
    /\ call.fn = "buildTiming"
    /\ NoEntryForUrl
    /\ Len(TimingCall.entries) = 1
    /\ TimingCall.res.url.bytes = 100000
    /\ TimingCall.res.serverTiming = NoHeader
    /\ TimingCall.total = 101000
    /\ call.result.ping = 20000
    /\ call.result.duration = 100000
    /\ call.result.bps = Rate(804000, 80000)

(***************************************************************************)
(* C33.  As stated: with a resource-timing entry for the response URL, the *)
(* latency is (responseStart - requestStart) minus the server processing   *)
(* time, the download time is responseEnd - responseStart, the network     *)
(* duration is their sum, and the transferred bytes are the reported       *)
(* transferSize if non-zero, else the requested bytes * (1 +               *)
(* headerOverheadFraction).                                                *)
(***************************************************************************)
PerfOfCall == FindPerf(TimingCall.entries, TimingCall.res.url)

\* the entry's numbers agree with the result, given the latency
PerfTimingWith(latency) ==
    LET perf == PerfOfCall
        numBytes == TimingCall.res.url.bytes
        download == perf.responseEnd - perf.responseStart
        bytes == IF perf.transferSize # 0 THEN perf.transferSize
                 ELSE (numBytes * 1005) \div 1000
        out == call.result
    IN /\ out.ping = latency
       /\ out.duration = latency + download
       /\ numBytes # 0
          => out.bps.bits * Max(100, download) = out.bps.per * 8 * bytes

C33_PerfLatencyIsDifference ==
    (call.fn = "buildTiming" /\ ~NoEntryForUrl)
    => PerfTimingWith((PerfOfCall.responseStart - PerfOfCall.requestStart)
                        - ServerTime(TimingCall.res))

(***************************************************************************)
(* C33, amended.  The same, with the latency never below 0.01 ms: latency  *)
(* = max(0.01 ms, (responseStart - requestStart) - serverTime).            *)
(***************************************************************************)
C33_PerfLatencyIsFlooredDifference ==
    (call.fn = "buildTiming" /\ ~NoEntryForUrl)
    => PerfTimingWith(Max(1, (PerfOfCall.responseStart
                                - PerfOfCall.requestStart)
                               - ServerTime(TimingCall.res)))

\* a time to first byte of 4 ms under an estimated server time of 10 ms
C33_Witness ==
    /\ call.fn = "buildTiming"
    /\ TimingCall.entries = <<FastEntry(TimingCall.res.url),
                              SlowEntry(TimingCall.res.url)>>
    /\ TimingCall.res.url.bytes = 100000
    /\ TimingCall.res.serverTiming = NoHeader
    /\ call.result.ping = 1
    /\ call.result.duration = 4001
    /\ call.result.bps = Rate(805600, 4000)

(***************************************************************************)
(* C34.  The server processing time subtracted is the number of the dur=   *)
(* field of the server-timing header whenever the field is present, 0      *)
(* included, and estimatedServerTime only when the header or the field is  *)
(* absent.                                                                 *)
(***************************************************************************)
C34_ServerTimeIsHeaderDur ==
    call.fn = "buildTiming"
    => LET serverTiming == TimingCall.res.serverTiming
           durs == serverTiming.durs
           serverTime == IF serverTiming.present /\ durs # << >>
                            /\ durs[Len(durs)] # NaN
                         THEN durs[Len(durs)]
                         ELSE EstimatedServerTime
       IN NoEntryForUrl
          => call.result.duration = Max(100, TimingCall.total - serverTime)

(***************************************************************************)
(* C35.  The throughput of a sample is the timing estimator's throughput   *)
(* for the download exchange: bits transferred divided by the network      *)
(* duration with the latency share removed, from the resource-timing entry *)
(* of the download URL when there is one.                                  *)
(***************************************************************************)
C35_SampleThroughputIsEstimators ==
    call.fn = "measureDownload"
    => call.result.mbps
         = BuildTiming(call.args[1], call.args[2], call.args[3],
                       call.args[4]).bps

(***************************************************************************)
(* C36.  With a non-empty table, whenever effectiveType is defined it is   *)
(* _classifyConnection(table, downlink, rtt) of the current downlink and   *)
(* rtt.                                                                    *)
(***************************************************************************)
C36_LabelMatchesMetrics ==
    (cfg.table # EmptyTable /\ effectiveType # Undef)
    => effectiveType = ClassifyConnection(cfg.table, downlink, rtt)

\* a preliminary slow-2g (40 kbps) replaced by the 4g of the medians
C36_Witness ==
    /\ cfg.table = WICG
    /\ Finished
    /\ Len(step.measurements) = 2
    /\ step.measurements[1].downlink = 40
    /\ step.measurements[2].downlink = 2000
    /\ downlink = 1020
    /\ effectiveType = "4g"

(***************************************************************************)
(* C37.  The aggregated state is updated atomically: downlink, uplink, rtt *)
(* and effectiveType are all undefined or all defined, and an aggregation  *)
(* step whose classification raises modifies none of them.                 *)
(***************************************************************************)
AllDefined ==
    /\ downlink # UndefNum
    /\ uplink # UndefNum
    /\ rtt # UndefNum
    /\ effectiveType # Undef

C37_AtomicUpdate ==
    /\ [](AllUndefined \/ AllDefined)
    /\ [][cfg.table = EmptyTable => UNCHANGED connVars]_vars

(***************************************************************************)
(* C38.  A cycle that waits in its settle or inter-probe delay when        *)
(* dispose() is called is cancelled for good: from then on it takes no     *)
(* step (no request, no update, no event).  A delay started after the      *)
(* dispose() stays pending until it fires.                                 *)
(***************************************************************************)
Waiting(c) == cyc[c].pc \in {"settle", "gap"}

Cancelled(c) == Waiting(c) /\ \A t \in delayTimers : t.c # c

C38_DisposedDelayCancelsCycle ==
    [][\A c \in Cycles :
         /\ (step'.name = "dispose" /\ Waiting(c))
            => /\ cyc'[c] = cyc[c]
               /\ \A t \in delayTimers' : t.c # c
         /\ Cancelled(c)
            => /\ cyc'[c] = cyc[c]
               /\ step'.c # c
               /\ \A t \in delayTimers' : t.c # c
         /\ (disposed /\ Waiting(c) /\ ~Cancelled(c))
            => \/ \E t \in delayTimers' : t.c = c
               \/ step'.name = "delayFire" /\ step'.c = c]_vars

\* cycle 1 was cancelled in its inter-probe delay; cycle 2, started by
\* measure() afterwards, has gone through its own settle delay
C38_Witness ==
    /\ disposed
    /\ cyc[1].pc = "gap"
    /\ cyc[1].ms # << >>
    /\ delayTimers = {}
    /\ step.name = "delayFire"
    /\ step.c = 2
    /\ step.requests = <<Request(2, MeasurementSize(0), 0)>>
    /\ cyc[2].pc = "dlFetch"
    /\ effectiveType # Undef

(***************************************************************************)
(* C39.  The measuring flag is true only while a cycle is active; the step *)
(* that ends a cycle leaves it false; and it is cleared only by dispose()  *)
(* or by the end of a cycle while no other cycle is still running.         *)
(***************************************************************************)
Running(c) == Active(c) /\ ~Cancelled(c)

C39_FlagFollowsItsCycle ==
    /\ [](measuring => \E c \in Cycles : Active(c))
    /\ [][/\ (step'.c \in Cycles /\ step'.outcome # "pending"
                /\ step'.name # "measure")
             => ~measuring'
          /\ (measuring /\ ~measuring' /\ step'.name # "dispose")
             => \A d \in Cycles : ~Running(d)']_vars

(***************************************************************************)
(* C40.  The change events of a cycle are ordered.  An event with          *)
(* preliminary = true is emitted only by the step that ends probe 0, which *)
(* leaves the cycle waiting for probe 1, and is the only one of that step; *)
(* an event with preliminary = false is emitted only by the step that ends *)
(* the last probe and the cycle, and is the last event of that step; the   *)
(* detail of every change event is the aggregated state the step leaves.   *)
(***************************************************************************)
C40_ChangeEventsOrdered ==
    [][\A k \in ChangeEvents(step'.events) :
         LET e == step'.events[k]
             c == step'.c
         IN /\ c \in Cycles
            /\ e.downlink = downlink'
            /\ e.uplink = uplink'
            /\ e.rtt = rtt'
            /\ e.effectiveType = effectiveType'
            /\ e.preliminary
               => /\ cyc[c].i = 0
                  /\ cyc[c].pc = "dlText"
                  /\ cyc'[c].pc = "gap"
                  /\ cyc'[c].i = 0
                  /\ step'.outcome = "pending"
                  /\ ChangeEvents(step'.events) = {k}
            /\ ~e.preliminary
               => /\ cyc[c].i = cfg.count - 1
                  /\ cyc'[c].pc = "done"
                  /\ step'.outcome # "pending"
                  /\ k = Len(step'.events)
                  /\ ChangeEvents(step'.events) = {k}]_vars

\* the final event of a two-probe cycle whose probe 1 failed: the label of
\* the preliminary update stays, and the event is emitted all the same
C40_Witness ==
    /\ cfg.count = 2
    /\ step.name \in {"fetchReject", "textReject"}
    /\ Finished
    /\ Len(step.measurements) = 1
    /\ Len(step.events) = 1
    /\ step.events[1].type = "change"
    /\ ~step.events[1].preliminary
    /\ step.events[1].downlink = downlink
    /\ step.events[1].uplink = uplink
    /\ step.events[1].effectiveType = effectiveType

====
